---- MODULE Spec2Model ----
(***************************************************************************)
(* Forum backend: one Thread aggregate with its embedded reply tree and    *)
(* vote ledgers, the users' reputation, and the route handlers of          *)
(* routes/votes.js and routes/replies.js that mutate them.  In the first   *)
(* specifications every handler is one atomic action (requests executed    *)
(* one at a time); in SpecVoteRace, SpecCrash and SpecForumRace every      *)
(* awaited database call of a handler is a step of its own, so that the    *)
(* calls of concurrent requests interleave.                                *)
(*                                                                         *)
(* The reply schema declares `replies: [this]` at module level, where      *)
(* `this` is the (empty) module.exports object, so Mongoose types the      *)
(* children of a top-level reply as an array of Mixed: a nested reply is   *)
(* stored as the plain object pushed by the handler and never gets an _id. *)
(* Reading `reply._id.toString()` on such a node throws a TypeError.       *)
(***************************************************************************)
EXTENDS Integers, Sequences, FiniteSets, TLC

\* ---------------------------------------------------------------- bounds
NumUsers == 2
NumVoters == 2
MaxId == 2
MaxNodes == 3
MaxClock == 2
MaxRep == 10
NumCategories == 2
MaxThreads == 2
MaxTagId == 3
MaxCount == 3
MaxViews == 2
NumRequests == 2
MaxStops == 1
MaxRaceThreads == 3
RaceBaseRep == 5

Users == 1..NumUsers
Voters == 1..NumVoters
ReplyIds == 1..MaxId
\* reply bodies: what a new reply says, and what an edit replaces it with
NewContents == {"first"}
EditContents == {"edited"}
Contents == NewContents \cup EditContents
BaseReps == {0, 8}
\* reputation of every user at the start of the statistics specification
StatsBaseRep == 5

\* ------------------------------------------------------- program values
\* the value of `_id` on a node Mongoose never gave one (JS undefined)
Undefined == 0
\* parentReplyId absent from the request body (JS null / undefined)
Null == 0
\* parentReplyId sent as the empty string: falsy, yet not null
EmptyString == -1
VoteTypes == {"upvote", "downvote"}
\* a body whose type is neither of the two
InvalidTypes == {"sideways"}
\* what findById answers for an id that no stored document has
NoDocument == [missing |-> TRUE]
ParentInputs == {Null, EmptyString} \cup ReplyIds

\* seed data: users[0] is the admin, every other account has role 'user'
Role(u) == IF u = 1 THEN "admin" ELSE "user"
\* the author of the thread document
ThreadAuthor == NumUsers
\* the one voter of the reply-tree specification
TreeVoter == 1

Max(a, b) == IF a >= b THEN a ELSE b

\* Array.prototype.splice(i, 1)
Splice(s, i) == SubSeq(s, 1, i - 1) \o SubSeq(s, i + 1, Len(s))

\* Array.prototype.findIndex on a ledger; 0 stands for JS -1
findIndex(votes, user) ==
  IF \E i \in 1..Len(votes) : votes[i].user = user
  THEN CHOOSE i \in 1..Len(votes) :
         /\ votes[i].user = user
         /\ \A j \in 1..(i - 1) : votes[j].user # user
  ELSE 0

\* votes.filter(v => v.type === t).length
countType(votes, t) == Len(SelectSeq(votes, LAMBDA v : v.type = t))

\* a score that forgets the downvotes
voteScoreUpOnly(votes) == countType(votes, "upvote")

\* upvotes - downvotes, as the vote handlers compute it for the response
voteScore(votes) == countType(votes, "upvote") - countType(votes, "downvote")

\* threadSchema.virtual('voteScore')
voteScoreVirtual(t) == countType(t.votes, "upvote") - countType(t.votes, "downvote")

\* votes.find(v => v.user === user): its type, or "null"
userVote(votes, user) ==
  IF findIndex(votes, user) = 0 THEN "null" ELSE votes[findIndex(votes, user)].type

\* applyVote without the search for the voter's existing vote
applyVoteNoLookup(votes, user, type) ==
  [votes |-> Append(votes, [user |-> user, type |-> type]),
   voteChange |-> IF type = "upvote" THEN 1 ELSE -1]

\* applyVote whose repeated cast keeps the record it should remove
applyVoteKeepOnRepeat(votes, user, type) ==
  LET existingVoteIndex == findIndex(votes, user) IN
  IF existingVoteIndex # 0
  THEN IF votes[existingVoteIndex].type = type
       THEN [votes |-> votes, voteChange |-> IF type = "upvote" THEN -1 ELSE 1]
       ELSE [votes |-> [votes EXCEPT ![existingVoteIndex].type = type],
             voteChange |-> IF type = "upvote" THEN 2 ELSE -2]
  ELSE [votes |-> Append(votes, [user |-> user, type |-> type]),
        voteChange |-> IF type = "upvote" THEN 1 ELSE -1]

\* applyVote whose change of type removes the record and pushes a new one
applyVoteFlipMoves(votes, user, type) ==
  LET existingVoteIndex == findIndex(votes, user) IN
  IF existingVoteIndex # 0
  THEN IF votes[existingVoteIndex].type = type
       THEN [votes |-> Splice(votes, existingVoteIndex),
             voteChange |-> IF type = "upvote" THEN -1 ELSE 1]
       ELSE [votes |-> Append(Splice(votes, existingVoteIndex),
                              [user |-> user, type |-> type]),
             voteChange |-> IF type = "upvote" THEN 2 ELSE -2]
  ELSE [votes |-> Append(votes, [user |-> user, type |-> type]),
        voteChange |-> IF type = "upvote" THEN 1 ELSE -1]

\* applyVote whose change of type counts one step instead of two
applyVoteFlipByOne(votes, user, type) ==
  LET existingVoteIndex == findIndex(votes, user) IN
  IF existingVoteIndex # 0
  THEN IF votes[existingVoteIndex].type = type
       THEN [votes |-> Splice(votes, existingVoteIndex),
             voteChange |-> IF type = "upvote" THEN -1 ELSE 1]
       ELSE [votes |-> [votes EXCEPT ![existingVoteIndex].type = type],
             voteChange |-> IF type = "upvote" THEN 1 ELSE -1]
  ELSE [votes |-> Append(votes, [user |-> user, type |-> type]),
        voteChange |-> IF type = "upvote" THEN 1 ELSE -1]

\* the toggle / flip / append of a vote and the resulting voteChange
applyVote(votes, user, type) ==
  LET existingVoteIndex == findIndex(votes, user) IN
  IF existingVoteIndex # 0
  THEN IF votes[existingVoteIndex].type = type
       THEN [votes |-> Splice(votes, existingVoteIndex),
             voteChange |-> IF type = "upvote" THEN -1 ELSE 1]
       ELSE [votes |-> [votes EXCEPT ![existingVoteIndex].type = type],
             voteChange |-> IF type = "upvote" THEN 2 ELSE -2]
  ELSE [votes |-> Append(votes, [user |-> user, type |-> type]),
        voteChange |-> IF type = "upvote" THEN 1 ELSE -1]

\* the adjustment without its floor
adjustReputationNoFloor(rep, voteChange) == rep + voteChange

\* Math.max(0, author.reputation + voteChange)
adjustReputation(rep, voteChange) == Max(0, rep + voteChange)

\* the plain object built by the add-reply handler before it is pushed
newReply(user, content, parentReplyId) ==
  [id |-> Undefined, author |-> user, content |-> content,
   parentReply |-> IF parentReplyId \in {Null, EmptyString} THEN Null ELSE parentReplyId,
   votes |-> <<>>, replies |-> <<>>, isEdited |-> FALSE, editedAt |-> Null]

\* result of a search that found nothing / that hit `undefined.toString()`
NoHit == [tag |-> "null", replies |-> <<>>, voteChange |-> 0, votes |-> <<>>, author |-> 0]
Thrown == [tag |-> "throw", replies |-> <<>>, voteChange |-> 0, votes |-> <<>>, author |-> 0]
Hit(replies, voteChange, votes, author) ==
  [tag |-> "found", replies |-> replies, voteChange |-> voteChange,
   votes |-> votes, author |-> author]

\* findAndVoteReply: depth-first search from index i of `replies`
RECURSIVE findAndVoteReply(_, _, _, _, _)
findAndVoteReply(replies, i, replyId, user, type) ==
  IF i > Len(replies) THEN NoHit
  ELSE LET reply == replies[i] IN
    IF reply.id = Undefined THEN Thrown
    ELSE IF reply.id = replyId
    THEN LET v == applyVote(reply.votes, user, type) IN
         Hit([replies EXCEPT ![i].votes = v.votes], v.voteChange, v.votes, reply.author)
    ELSE LET sub == IF Len(reply.replies) > 0
                    THEN findAndVoteReply(reply.replies, 1, replyId, user, type)
                    ELSE NoHit IN
         IF sub.tag = "throw" THEN Thrown
         ELSE IF sub.tag = "found"
         THEN Hit([replies EXCEPT ![i].replies = sub.replies],
                  sub.voteChange, sub.votes, sub.author)
         ELSE findAndVoteReply(replies, i + 1, replyId, user, type)

\* findAndAddReply: push newReply under the node whose _id is parentReplyId.
\* The children of a subdocument are Mixed, so the pushed object keeps no _id.
RECURSIVE findAndAddReply(_, _, _, _)
findAndAddReply(replies, i, parentReplyId, node) ==
  IF i > Len(replies) THEN NoHit
  ELSE LET reply == replies[i] IN
    IF reply.id = Undefined THEN Thrown
    ELSE IF reply.id = parentReplyId
    THEN Hit([replies EXCEPT ![i].replies = Append(reply.replies, node)], 0, <<>>, 0)
    ELSE LET sub == IF Len(reply.replies) > 0
                    THEN findAndAddReply(reply.replies, 1, parentReplyId, node)
                    ELSE NoHit IN
         IF sub.tag = "throw" THEN Thrown
         ELSE IF sub.tag = "found"
         THEN Hit([replies EXCEPT ![i].replies = sub.replies], 0, <<>>, 0)
         ELSE findAndAddReply(replies, i + 1, parentReplyId, node)

\* the author-or-admin test of the edit and delete handlers
notAuthorized(reply, user) == reply.author # user /\ Role(user) # "admin"

\* findAndUpdateReply: tag "denied" is the thrown Error('Not authorized')
RECURSIVE findAndUpdateReply(_, _, _, _, _, _)
findAndUpdateReply(replies, i, replyId, user, content, now) ==
  IF i > Len(replies) THEN NoHit
  ELSE LET reply == replies[i] IN
    IF reply.id = Undefined THEN Thrown
    ELSE IF reply.id = replyId
    THEN IF notAuthorized(reply, user)
         THEN [Thrown EXCEPT !.tag = "denied"]
         ELSE Hit([replies EXCEPT ![i].content = content, ![i].isEdited = TRUE,
                                  ![i].editedAt = now],
                  0, <<>>, reply.author)
    ELSE LET sub == IF Len(reply.replies) > 0
                    THEN findAndUpdateReply(reply.replies, 1, replyId, user, content, now)
                    ELSE NoHit IN
         IF sub.tag \in {"throw", "denied"} THEN sub
         ELSE IF sub.tag = "found"
         THEN Hit([replies EXCEPT ![i].replies = sub.replies], 0, <<>>, sub.author)
         ELSE findAndUpdateReply(replies, i + 1, replyId, user, content, now)

\* findAndRemoveReply: splice the matching node (and with it its subtree)
RECURSIVE findAndRemoveReply(_, _, _, _)
findAndRemoveReply(replies, i, replyId, user) ==
  IF i > Len(replies) THEN NoHit
  ELSE LET reply == replies[i] IN
    IF reply.id = Undefined THEN Thrown
    ELSE IF reply.id = replyId
    THEN IF notAuthorized(reply, user)
         THEN [Thrown EXCEPT !.tag = "denied"]
         ELSE Hit(Splice(replies, i), 0, <<>>, reply.author)
    ELSE LET sub == IF Len(reply.replies) > 0
                    THEN findAndRemoveReply(reply.replies, 1, replyId, user)
                    ELSE NoHit IN
         IF sub.tag \in {"throw", "denied"} THEN sub
         ELSE IF sub.tag = "found"
         THEN Hit([replies EXCEPT ![i].replies = sub.replies], 0, <<>>, sub.author)
         ELSE findAndRemoveReply(replies, i + 1, replyId, user)

\* threadSchema.pre('save'): a save that modified `replies` stamps lastActivity
preSave(before, after, now) ==
  IF after.replies # before.replies THEN [after EXCEPT !.lastActivity = now] ELSE after

\* ------------------------------------------------------------ handlers
\* Each handler is a function of the loaded documents and the request; it
\* yields the HTTP outcome, the documents as persisted, and the response.
Outcome(result, t, rep, score, uv, change) ==
  [result |-> result, thread |-> t, reputation |-> rep,
   voteScore |-> score, userVote |-> uv, voteChange |-> change]



\* POST /threads/:threadId (votes router)
voteOnThread(t, rep, user, type) ==
  IF type \notin VoteTypes THEN Outcome("InvalidVote", t, rep, 0, "null", 0)
  ELSE IF t = NoDocument THEN Outcome("NotFound", t, rep, 0, "null", 0)
  ELSE
  LET v == applyVote(t.votes, user, type)
      saved == preSave(t, [t EXCEPT !.votes = v.votes], 0)
  IN Outcome("OK", saved,
             [rep EXCEPT ![t.author] = adjustReputation(rep[t.author], v.voteChange)],
             voteScore(saved.votes), userVote(saved.votes, user), v.voteChange)

\* POST /threads/:threadId/replies/:replyId (votes router)
voteOnReply(t, rep, user, replyId, type, now) ==
  IF type \notin VoteTypes THEN Outcome("InvalidVote", t, rep, 0, "null", 0)
  ELSE IF t = NoDocument THEN Outcome("NotFound", t, rep, 0, "null", 0)
  ELSE
  LET found == findAndVoteReply(t.replies, 1, replyId, user, type) IN
  IF found.tag = "throw" THEN Outcome("ServerError", t, rep, 0, "null", 0)
  ELSE IF found.tag = "null" THEN Outcome("NotFound", t, rep, 0, "null", 0)
  ELSE Outcome("OK", preSave(t, [t EXCEPT !.replies = found.replies], now),
               [rep EXCEPT ![found.author] =
                      adjustReputation(rep[found.author], found.voteChange)],
               voteScore(found.votes), userVote(found.votes, user), found.voteChange)

\* addReply that puts a top-level reply in front of its siblings
addReplyAtFront(t, rep, user, content, parentReplyId, now, id) ==
  IF t.isLocked THEN Outcome("Forbidden", t, rep, 0, "null", 0)
  ELSE LET node == newReply(user, content, parentReplyId) IN
    IF parentReplyId \notin {Null, EmptyString}
    THEN LET found == findAndAddReply(t.replies, 1, parentReplyId, node) IN
         IF found.tag = "throw" THEN Outcome("ServerError", t, rep, 0, "null", 0)
         ELSE IF found.tag = "null" THEN Outcome("NotFound", t, rep, 0, "null", 0)
         ELSE Outcome("OK",
                      preSave(t, [t EXCEPT !.replies = found.replies,
                                           !.lastActivity = now], now),
                      rep, 0, "null", 0)
    ELSE Outcome("OK",
                 preSave(t, [t EXCEPT !.replies = <<[node EXCEPT !.id = id]>> \o t.replies,
                                      !.lastActivity = now], now),
                 rep, 0, "null", 0)

\* addReply that saves the new reply and leaves lastActivity as it was
addReplyUnstamped(t, rep, user, content, parentReplyId, now, id) ==
  IF t.isLocked THEN Outcome("Forbidden", t, rep, 0, "null", 0)
  ELSE LET node == newReply(user, content, parentReplyId) IN
    IF parentReplyId \notin {Null, EmptyString}
    THEN LET found == findAndAddReply(t.replies, 1, parentReplyId, node) IN
         IF found.tag = "throw" THEN Outcome("ServerError", t, rep, 0, "null", 0)
         ELSE IF found.tag = "null" THEN Outcome("NotFound", t, rep, 0, "null", 0)
         ELSE Outcome("OK", [t EXCEPT !.replies = found.replies], rep, 0, "null", 0)
    ELSE Outcome("OK", [t EXCEPT !.replies = Append(t.replies, [node EXCEPT !.id = id])],
                 rep, 0, "null", 0)

\* POST /:threadId (replies router); id is the ObjectId a subdocument gets
addReply(t, rep, user, content, parentReplyId, now, id) ==
  IF t.isLocked THEN Outcome("Forbidden", t, rep, 0, "null", 0)
  ELSE LET node == newReply(user, content, parentReplyId) IN
    IF parentReplyId \notin {Null, EmptyString}
    THEN LET found == findAndAddReply(t.replies, 1, parentReplyId, node) IN
         IF found.tag = "throw" THEN Outcome("ServerError", t, rep, 0, "null", 0)
         ELSE IF found.tag = "null" THEN Outcome("NotFound", t, rep, 0, "null", 0)
         ELSE Outcome("OK",
                      preSave(t, [t EXCEPT !.replies = found.replies,
                                           !.lastActivity = now], now),
                      rep, 0, "null", 0)
    ELSE Outcome("OK",
                 preSave(t, [t EXCEPT !.replies = Append(t.replies, [node EXCEPT !.id = id]),
                                      !.lastActivity = now], now),
                 rep, 0, "null", 0)

\* editReply that refuses a locked thread, as the add-reply handler does
editReplyLockChecked(t, rep, user, replyId, content, now) ==
  LET found == findAndUpdateReply(t.replies, 1, replyId, user, content, now) IN
  IF t.isLocked \/ found.tag \in {"throw", "denied"}
  THEN Outcome("Forbidden", t, rep, 0, "null", 0)
  ELSE IF found.tag = "null" THEN Outcome("NotFound", t, rep, 0, "null", 0)
  ELSE Outcome("OK", preSave(t, [t EXCEPT !.replies = found.replies], now),
               rep, 0, "null", 0)

\* PUT /:threadId/replies/:replyId: the inner catch answers 403 for any throw
editReply(t, rep, user, replyId, content, now) ==
  LET found == findAndUpdateReply(t.replies, 1, replyId, user, content, now) IN
  IF found.tag \in {"throw", "denied"} THEN Outcome("Forbidden", t, rep, 0, "null", 0)
  ELSE IF found.tag = "null" THEN Outcome("NotFound", t, rep, 0, "null", 0)
  ELSE Outcome("OK", preSave(t, [t EXCEPT !.replies = found.replies], now),
               rep, 0, "null", 0)

\* DELETE /:threadId/replies/:replyId: the inner catch answers 403 for any throw
deleteReply(t, rep, user, replyId, now) ==
  LET found == findAndRemoveReply(t.replies, 1, replyId, user) IN
  IF found.tag \in {"throw", "denied"} THEN Outcome("Forbidden", t, rep, 0, "null", 0)
  ELSE IF found.tag = "null" THEN Outcome("NotFound", t, rep, 0, "null", 0)
  ELSE Outcome("OK", preSave(t, [t EXCEPT !.replies = found.replies], now),
               rep, 0, "null", 0)

\* the inner try of the edit and delete handlers: thread.save() is awaited
\* inside it, and its catch answers 403 whatever was thrown; `saved` tells
\* whether the write went through
innerCatch(out, t, rep, saved) ==
  IF out.result = "OK" /\ ~saved THEN Outcome("Forbidden", t, rep, 0, "null", 0)
  ELSE out

\* calculateReplyStats whose nested totals replace the node's own tallies
RECURSIVE calculateReplyStatsNestedOnly(_)
calculateReplyStatsNestedOnly(replies) ==
  IF replies = <<>> THEN [upvotes |-> 0, downvotes |-> 0]
  ELSE LET reply == Head(replies)
           rest == calculateReplyStatsNestedOnly(Tail(replies))
       IN IF Len(reply.replies) > 0
          THEN LET nested == calculateReplyStatsNestedOnly(reply.replies) IN
               [upvotes |-> nested.upvotes + rest.upvotes,
                downvotes |-> nested.downvotes + rest.downvotes]
          ELSE [upvotes |-> countType(reply.votes, "upvote") + rest.upvotes,
                downvotes |-> countType(reply.votes, "downvote") + rest.downvotes]

\* calculateReplyStats of GET /threads/:threadId/stats
RECURSIVE calculateReplyStats(_)
calculateReplyStats(replies) ==
  IF replies = <<>> THEN [upvotes |-> 0, downvotes |-> 0]
  ELSE LET reply == Head(replies)
           nested == IF Len(reply.replies) > 0 THEN calculateReplyStats(reply.replies)
                     ELSE [upvotes |-> 0, downvotes |-> 0]
           rest == calculateReplyStats(Tail(replies))
       IN [upvotes |-> countType(reply.votes, "upvote") + nested.upvotes + rest.upvotes,
           downvotes |-> countType(reply.votes, "downvote") + nested.downvotes
                           + rest.downvotes]

\* GET /threads/:threadId/stats: the response body
getVoteStats(t) ==
  LET upvotes == countType(t.votes, "upvote")
      downvotes == countType(t.votes, "downvote")
      replyStats == calculateReplyStats(t.replies)
  IN [thread |-> [upvotes |-> upvotes, downvotes |-> downvotes,
                  score |-> upvotes - downvotes],
      replies |-> [upvotes |-> replyStats.upvotes, downvotes |-> replyStats.downvotes,
                   score |-> replyStats.upvotes - replyStats.downvotes],
      total |-> [upvotes |-> upvotes + replyStats.upvotes,
                 downvotes |-> downvotes + replyStats.downvotes,
                 score |-> (upvotes - downvotes)
                             + (replyStats.upvotes - replyStats.downvotes)]]

\* number of reply nodes at every depth (bounds the model's tree)
RECURSIVE TreeSize(_)
TreeSize(replies) ==
  IF replies = <<>> THEN 0
  ELSE 1 + TreeSize(Head(replies).replies) + TreeSize(Tail(replies))

\* ------------------------------------------------- threads, tags, categories
\* a Thread document as `new Thread({...})` builds it (schema defaults); the
\* title and body texts are not represented
newThread(author, category, tagIds, now) ==
  [author |-> author, category |-> category, tags |-> tagIds,
   votes |-> <<>>, replies |-> <<>>, views |-> 0,
   isPinned |-> FALSE, isLocked |-> FALSE, isEdited |-> FALSE,
   lastActivity |-> now, createdAt |-> now]

\* the requester of a request that carries no token (optionalAuth)
Anonymous == 0

\* tag names as clients spell them, and String.prototype.toLowerCase on them
TagNames == {"React", "react", "vue"}
Lower(name) == IF name = "React" THEN "react" ELSE name

\* the `tags` field of a request body: absent, or an array of names
TagLists == {<<>>, <<"React", "react">>, <<"react", "vue">>}
TagInputs ==
  {[given |-> FALSE, names |-> <<>>]} \cup {[given |-> TRUE, names |-> l] : l \in TagLists}

\* the `category` field of a request body: a 24-digit hex string, which names
\* the ObjectId id whether its letters are in lower or in upper case
CategoryIds == 1..NumCategories
CategoryInputs ==
  {[id |-> c, upper |-> FALSE] : c \in 1..(NumCategories + 1)}
    \cup {[id |-> c, upper |-> TRUE] : c \in CategoryIds}

\* a collection with document v stored under id k, and without id k
Put(f, k, v) == [x \in (DOMAIN f) \cup {k} |-> IF x = k THEN v ELSE f[x]]
Drop(f, k) == [x \in (DOMAIN f) \ {k} |-> f[x]]

\* Tag.findOne({ name }): the id of the tag of that name, 0 if there is none
findOne(tagDocs, name) ==
  IF \E id \in DOMAIN tagDocs : tagDocs[id].name = name
  THEN CHOOSE id \in DOMAIN tagDocs : tagDocs[id].name = name
  ELSE 0

\* the `for (const tagName of tags)` loop of create and update: find or create
\* the tag of each name in turn, add 1 to its usageCount, collect its id
RECURSIVE processTags(_, _, _)
processTags(tagDocs, nextTag, names) ==
  IF names = <<>> THEN [tags |-> tagDocs, nextTagId |-> nextTag, tagIds |-> <<>>]
  ELSE LET name == Lower(Head(names))
           found == findOne(tagDocs, name)
           id == IF found = 0 THEN nextTag ELSE found
           loaded == IF found = 0
                     THEN Put(tagDocs, id, [name |-> name, usageCount |-> 0])
                     ELSE tagDocs
           saved == [loaded EXCEPT ![id].usageCount = @ + 1]
           rest == processTags(saved, IF found = 0 THEN nextTag + 1 ELSE nextTag,
                               Tail(names))
       IN [rest EXCEPT !.tagIds = <<id>> \o rest.tagIds]

\* the `for (const tagId of thread.tags)` loop of update and delete: take 1,
\* floored at 0, from the usageCount of each referenced tag that still exists
RECURSIVE releaseTags(_, _)
releaseTags(tagDocs, tagIds) ==
  IF tagIds = <<>> THEN tagDocs
  ELSE LET id == Head(tagIds)
           saved == IF id \in DOMAIN tagDocs
                    THEN [tagDocs EXCEPT ![id].usageCount = Max(0, @ - 1)]
                    ELSE tagDocs
       IN releaseTags(saved, Tail(tagIds))

\* the database as a forum handler sees it, and a handler's answer
Db(threadDocs, tagDocs, categoryDocs, nextTag) ==
  [threads |-> threadDocs, tags |-> tagDocs, categories |-> categoryDocs,
   nextTagId |-> nextTag]
Answer(result, db) == [result |-> result, db |-> db]

\* POST / (threads router); id is the new thread's ObjectId
createThread(db, user, category, tagsIn, id, now) ==
  IF category.id \notin DOMAIN db.categories THEN Answer("BadRequest", db)
  ELSE LET p == IF tagsIn.given /\ Len(tagsIn.names) > 0
                THEN processTags(db.tags, db.nextTagId, tagsIn.names)
                ELSE [tags |-> db.tags, nextTagId |-> db.nextTagId, tagIds |-> <<>>]
           doc == newThread(user, category.id, p.tagIds, now)
       IN Answer("OK",
                 Db(Put(db.threads, id, doc), p.tags,
                    [db.categories EXCEPT ![category.id].threadCount = @ + 1],
                    p.nextTagId))

\* PUT /:threadId (threads router).  `category !== thread.category.toString()`
\* compares strings, and toString() gives lower-case hex; the old and the new
\* category are loaded before either is saved
updateThread(db, user, threadId, category, tagsIn) ==
  IF threadId \notin DOMAIN db.threads THEN Answer("NotFound", db)
  ELSE LET t == db.threads[threadId] IN
    IF t.author # user /\ Role(user) # "admin" THEN Answer("Forbidden", db)
    ELSE LET changed == category.upper \/ category.id # t.category IN
      IF changed /\ category.id \notin DOMAIN db.categories THEN Answer("BadRequest", db)
      ELSE LET oldSaved == [db.categories EXCEPT ![t.category].threadCount = @ - 1]
               newSaved == [oldSaved EXCEPT ![category.id].threadCount =
                                              db.categories[category.id].threadCount + 1]
               released == releaseTags(db.tags, t.tags)
               p == IF tagsIn.given
                    THEN processTags(released, db.nextTagId, tagsIn.names)
                    ELSE [tags |-> db.tags, nextTagId |-> db.nextTagId, tagIds |-> t.tags]
               doc == [t EXCEPT !.isEdited = TRUE,
                                !.category = IF changed THEN category.id ELSE @,
                                !.tags = p.tagIds]
           IN Answer("OK",
                     Db([db.threads EXCEPT ![threadId] = preSave(t, doc, t.lastActivity)],
                        p.tags, IF changed THEN newSaved ELSE db.categories, p.nextTagId))

\* DELETE /:threadId (threads router)
deleteThread(db, user, threadId) ==
  IF threadId \notin DOMAIN db.threads THEN Answer("NotFound", db)
  ELSE LET t == db.threads[threadId] IN
    IF t.author # user /\ Role(user) # "admin" THEN Answer("Forbidden", db)
    ELSE Answer("OK",
                Db(Drop(db.threads, threadId), releaseTags(db.tags, t.tags),
                   IF t.category \in DOMAIN db.categories
                   THEN [db.categories EXCEPT ![t.category].threadCount = Max(0, @ - 1)]
                   ELSE db.categories,
                   db.nextTagId))

\* the update { $set: { "tags.$": target } } on one thread matching
\* { tags: source }: the positional operator names the first matching element
setFirst(tagIds, source, target) ==
  IF \E i \in 1..Len(tagIds) : tagIds[i] = source
  THEN LET i == CHOOSE i \in 1..Len(tagIds) :
                  tagIds[i] = source /\ \A j \in 1..(i - 1) : tagIds[j] # source
       IN [tagIds EXCEPT ![i] = target]
  ELSE tagIds

\* POST /:tagId/merge (tags router); targetTagId 0 is a body without the field
mergeTags(db, user, sourceId, targetId) ==
  IF Role(user) # "admin" THEN Answer("Forbidden", db)
  ELSE IF targetId = 0 THEN Answer("BadRequest", db)
  ELSE IF sourceId \notin DOMAIN db.tags \/ targetId \notin DOMAIN db.tags
  THEN Answer("NotFound", db)
  ELSE IF sourceId = targetId THEN Answer("BadRequest", db)
  ELSE Answer("OK",
              Db([id \in DOMAIN db.threads |->
                    [db.threads[id] EXCEPT !.tags = setFirst(@, sourceId, targetId)]],
                 Drop([db.tags EXCEPT ![targetId].usageCount =
                                        @ + db.tags[sourceId].usageCount], sourceId),
                 db.categories, db.nextTagId))

\* the sort orders of GET / (threads router); every key is descending
SortOptions == {"recent", "popular", "votes"}
sortKeys(sort, t) ==
  CASE sort = "popular" -> <<t.views, t.createdAt>>
    [] sort = "votes" -> <<t.createdAt>>
    [] OTHER -> <<IF t.isPinned THEN 1 ELSE 0, t.lastActivity>>

\* key sequence a sorts at or before key sequence b in descending order
RECURSIVE NotAfter(_, _)
NotAfter(a, b) ==
  IF a = <<>> THEN TRUE
  ELSE IF Head(a) # Head(b) THEN Head(a) > Head(b)
  ELSE NotAfter(Tail(a), Tail(b))

\* the lists GET / may return: every thread once, in the order of the sort
\* keys; threads with equal keys come in any order
listThreads(threadDocs, sort) ==
  {list \in [1..Cardinality(DOMAIN threadDocs) -> DOMAIN threadDocs] :
     /\ \A i, j \in DOMAIN list : i # j => list[i] # list[j]
     /\ \A i, j \in DOMAIN list :
          i < j => NotAfter(sortKeys(sort, threadDocs[list[i]]),
                            sortKeys(sort, threadDocs[list[j]]))}

\* getThread that counts the author's own reads too
getThreadCountsAuthor(t, requester) ==
  preSave(t, [t EXCEPT !.views = @ + 1], t.lastActivity)

\* GET /:threadId (threads router): the thread as saved by the request
getThread(t, requester) ==
  IF requester = Anonymous \/ t.author # requester
  THEN preSave(t, [t EXCEPT !.views = @ + 1], t.lastActivity)
  ELSE t

\* --------------------------------------------------------------- state
\* thread: the persisted Thread document; reputation: the User documents;
\* nextId: the next fresh ObjectId; lastOp: the last request and its answer;
\* toggle, base: history kept for the properties only
VARIABLES thread, reputation, nextId, lastOp, toggle, base,
          threads, tags, categories, nextThreadId, nextTagId, lastReq,
          requests
\* threads, tags, categories: the three collections; nextThreadId, nextTagId:
\* the next fresh ObjectIds; lastReq: the last forum request and its status
treeVars == <<thread, reputation, nextId, lastOp, toggle, base>>
forumVars == <<threads, tags, categories, nextThreadId, nextTagId, lastReq>>
\* requests: the requests in flight, each with the documents it has loaded
\* and the step it has reached; a handler that runs alone leaves it as it is
vars == <<treeVars, forumVars, requests>>

\* what the last request was and what it answered; `before` is the target's
\* ledger before a successful cast; a refused request leaves only its kind
\* and its status
Op(kind, user, type, target, before, author, out) ==
  IF out.result = "OK"
  THEN [kind |-> kind, user |-> user, type |-> type, target |-> target,
        result |-> out.result, voteScore |-> out.voteScore, userVote |-> out.userVote,
        voteChange |-> out.voteChange, before |-> before, author |-> author,
        repBefore |-> IF author = 0 THEN 0 ELSE reputation[author]]
  ELSE [kind |-> kind, user |-> 0, type |-> "none", target |-> 0,
        result |-> out.result, voteScore |-> 0, userVote |-> "null", voteChange |-> 0,
        before |-> <<>>, author |-> 0, repBefore |-> 0]

NoOp(kind) ==
  [kind |-> kind, user |-> 0, type |-> "none", target |-> 0, result |-> "none",
   voteScore |-> 0, userVote |-> "null", voteChange |-> 0, before |-> <<>>,
   author |-> 0, repBefore |-> 0]

NoToggle == [entity |-> -1, user |-> 0, type |-> "none", votes |-> <<>>, undone |-> FALSE]

\* the requests that can be in flight at once, and a slot holding none
Requests == 1..NumRequests
Idle == [kind |-> "none", result |-> "none"]
NoRequests == [r \in Requests |-> Idle]

\* the thread entity in lastOp.target and toggle.entity
ThreadEntity == 0

\* a freshly created thread document (schema defaults)
NewThread == newThread(ThreadAuthor, 1, <<>>, 1)

\* `new Date()` read by a request: not before any stored timestamp
Times(t) == t.lastActivity..MaxClock

\* a thread holding a top-level reply, and one whose reply holds a nested reply
ThreadWithReply == addReply(NewThread, <<>>, 1, "first", Null, 1, 1).thread
ThreadWithNested == addReply(ThreadWithReply, <<>>, 1, "first", 1, 1, 2).thread

\* the last forum request: its kind and status, and for a thread read the
\* requester and the thread
Req(kind, result, user, target) ==
  [kind |-> kind, result |-> result, user |-> user, target |-> target]

\* the collections as the seed script leaves them: one thread with a vote,
\* a reply tree and a tag, and counters that agree with it
SeedThread ==
  [ThreadWithNested EXCEPT !.tags = <<1>>, !.votes = <<[user |-> 1, type |-> "upvote"]>>]

SeedForum ==
  /\ threads = Put(<<>>, 1, SeedThread)
  /\ tags = Put(Put(<<>>, 1, [name |-> "react", usageCount |-> 1]),
                2, [name |-> "vue", usageCount |-> 0])
  /\ categories = [c \in CategoryIds |-> [threadCount |-> IF c = 1 THEN 1 ELSE 0]]
  /\ nextThreadId = 2
  /\ nextTagId = 3
  /\ lastReq = Req("init", "none", 0, 0)

Init ==
  /\ thread = NewThread
  /\ SeedForum
  /\ reputation = [u \in Users |-> 0]
  /\ base = reputation
  /\ nextId = 1
  /\ lastOp = NoOp("init")
  /\ toggle = NoToggle
  /\ requests = NoRequests

\* the isLocked flag of the schema is written by no route: a moderator
\* sets or clears it on the stored document
SetLocked(locked) ==
  /\ thread.isLocked # locked
  /\ thread' = [thread EXCEPT !.isLocked = locked]
  /\ lastOp' = NoOp("setLocked")
  /\ UNCHANGED <<reputation, nextId, base, forumVars, requests>>

VoteOnThread(user, type) ==
  LET out == voteOnThread(thread, reputation, user, type) IN
  /\ out.reputation[thread.author] <= MaxRep
  /\ thread' = out.thread
  /\ reputation' = out.reputation
  /\ lastOp' = Op("voteOnThread", user, type, ThreadEntity, thread.votes, thread.author, out)
  /\ UNCHANGED <<nextId, base, forumVars, requests>>

\* the ledger of the reply with the given _id (empty if there is none)
RECURSIVE LedgerOf(_, _)
LedgerOf(replies, id) ==
  IF replies = <<>> THEN <<>>
  ELSE IF Head(replies).id = id THEN Head(replies).votes
  ELSE LedgerOf(Head(replies).replies, id) \o LedgerOf(Tail(replies), id)

\* the author of the reply with the given _id (0 if there is none)
RECURSIVE AuthorOf(_, _)
AuthorOf(replies, id) ==
  IF replies = <<>> THEN 0
  ELSE IF Head(replies).id = id THEN Head(replies).author
  ELSE Max(AuthorOf(Head(replies).replies, id), AuthorOf(Tail(replies), id))

VoteOnReply(user, replyId, type, now) ==
  LET out == voteOnReply(thread, reputation, user, replyId, type, now) IN
  /\ \A u \in Users : out.reputation[u] <= MaxRep
  /\ thread' = out.thread
  /\ reputation' = out.reputation
  /\ lastOp' = Op("voteOnReply", user, type, replyId, LedgerOf(thread.replies, replyId),
                  AuthorOf(thread.replies, replyId), out)
  /\ UNCHANGED <<nextId, base, forumVars, requests>>

AddReply(user, content, parentReplyId, now) ==
  LET out == addReply(thread, reputation, user, content, parentReplyId, now, nextId) IN
  /\ out.result = "OK" => TreeSize(thread.replies) < MaxNodes
  /\ (out.result = "OK" /\ parentReplyId \in {Null, EmptyString}) => nextId <= MaxId
  /\ thread' = out.thread
  /\ nextId' = IF out.result = "OK" /\ parentReplyId \in {Null, EmptyString}
               THEN nextId + 1 ELSE nextId
  /\ lastOp' = Op("addReply", user, "none",
                  newReply(user, content, parentReplyId).parentReply, <<>>, 0, out)
  /\ UNCHANGED <<reputation, base, forumVars, requests>>

EditReply(user, replyId, content, now, saved) ==
  LET out == innerCatch(editReply(thread, reputation, user, replyId, content, now),
                        thread, reputation, saved) IN
  /\ thread' = out.thread
  /\ lastOp' = Op("editReply", user, "none", replyId, <<>>, 0, out)
  /\ UNCHANGED <<reputation, nextId, base, forumVars, requests>>

DeleteReply(user, replyId, now, saved) ==
  LET out == innerCatch(deleteReply(thread, reputation, user, replyId, now),
                        thread, reputation, saved) IN
  /\ thread' = out.thread
  /\ lastOp' = Op("deleteReply", user, "none", replyId, <<>>, 0, out)
  /\ UNCHANGED <<reputation, nextId, base, forumVars, requests>>

\* Reply-tree specification: every handler; votes are upvotes of one voter
Next ==
  \/ \E locked \in BOOLEAN : SetLocked(locked) /\ UNCHANGED toggle
  \/ VoteOnThread(TreeVoter, "upvote") /\ UNCHANGED toggle
  \/ \E replyId \in ReplyIds, now \in Times(thread) :
       VoteOnReply(TreeVoter, replyId, "upvote", now) /\ UNCHANGED toggle
  \/ \E user \in Users, content \in NewContents, parentReplyId \in ParentInputs,
        now \in Times(thread) :
       AddReply(user, content, parentReplyId, now) /\ UNCHANGED toggle
  \/ \E user \in Users, replyId \in ReplyIds, content \in EditContents,
        now \in Times(thread), saved \in BOOLEAN :
       EditReply(user, replyId, content, now, saved) /\ UNCHANGED toggle
  \/ \E user \in Users, replyId \in ReplyIds, now \in Times(thread), saved \in BOOLEAN :
       DeleteReply(user, replyId, now, saved) /\ UNCHANGED toggle

Spec == Init /\ [][Next]_vars

\* Voting specification: any sequence of casts by any voters on a thread
\* that already holds a top-level reply, with or without a nested reply

InitVote ==
  /\ SeedForum
  /\ thread \in {ThreadWithReply, ThreadWithNested}
  /\ \E r \in BaseReps : reputation = [u \in Users |-> r]
  /\ base = reputation
  /\ nextId = 2
  /\ lastOp = NoOp("init")
  /\ toggle = NoToggle
  /\ requests = NoRequests

\* remember a cast that put a vote where the voter had none; forget it at
\* any other cast on the same entity, noting whether that cast repeated it
Repeats(entity, user, type) ==
  toggle.entity = entity /\ toggle.user = user /\ toggle.type = type

Remember(entity, user, type, votesBefore) ==
  IF findIndex(votesBefore, user) = 0
  THEN [entity |-> entity, user |-> user, type |-> type, votes |-> votesBefore,
        undone |-> FALSE]
  ELSE IF toggle.entity = entity
       THEN IF Repeats(entity, user, type)
            THEN [toggle EXCEPT !.entity = -1, !.undone = TRUE]
            ELSE NoToggle
       ELSE [toggle EXCEPT !.undone = FALSE]

NextVote ==
  \/ \E user \in Voters, type \in VoteTypes :
       /\ VoteOnThread(user, type)
       /\ toggle' = Remember(ThreadEntity, user, type, thread.votes)
  \/ \E user \in Voters, replyId \in ReplyIds, type \in VoteTypes :
       /\ VoteOnReply(user, replyId, type, thread.lastActivity)
       /\ toggle' = IF lastOp'.result = "OK"
                    THEN Remember(replyId, user, type, LedgerOf(thread.replies, replyId))
                    ELSE [toggle EXCEPT !.undone = FALSE]

SpecVote == InitVote /\ [][NextVote]_vars

\* ---------------------------------------------------------- properties
\* every reply node of a tree, at every depth
RECURSIVE AllNodes(_)
AllNodes(replies) ==
  IF replies = <<>> THEN {}
  ELSE {Head(replies)} \cup AllNodes(Head(replies).replies) \cup AllNodes(Tail(replies))

\* every vote ledger of the thread aggregate
Ledgers == {thread.votes} \cup {n.votes : n \in AllNodes(thread.replies)}

Ups(L) == Cardinality({i \in 1..Len(L) : L[i].type = "upvote"})
Downs(L) == Cardinality({i \in 1..Len(L) : L[i].type = "downvote"})
Tally(L) == Ups(L) - Downs(L)

\* the last request was a vote that was recorded
IsCast == lastOp.kind \in {"voteOnThread", "voteOnReply"} /\ lastOp.result = "OK"

\* the persisted ledger of the entity the last request voted on
TargetLedger ==
  IF lastOp.target = ThreadEntity THEN thread.votes
  ELSE LedgerOf(thread.replies, lastOp.target)

\* C1: after any sequence of casts, every vote ledger (the thread's and each
\* reply's, at any depth) holds at most one record per voter.
C1_OneVotePerVoter ==
  \A L \in Ledgers : \A i, j \in 1..Len(L) : L[i].user = L[j].user => i = j

\* C1 witness: a voter who already held a vote cast again, and both the
\* thread's ledger and a reply's ledger hold the votes of two voters.
C1_Witness ==
  /\ IsCast
  /\ findIndex(lastOp.before, lastOp.user) # 0
  /\ Len(thread.votes) = 2
  /\ \E n \in AllNodes(thread.replies) : Len(n.votes) = 2

\* C2: the voteScore a vote request returns is the number of upvote records
\* minus the number of downvote records of the entity's persisted ledger, and
\* the thread's voteScore virtual gives that value for the thread.
C2_ReturnedScore ==
  /\ IsCast => lastOp.voteScore = Ups(TargetLedger) - Downs(TargetLedger)
  /\ voteScoreVirtual(thread) = Ups(thread.votes) - Downs(thread.votes)

\* C2 witness: a vote on the thread was answered while its ledger held one
\* upvote and one downvote, and a reply's ledger held two downvotes.
C2_Witness ==
  /\ IsCast /\ lastOp.kind = "voteOnThread"
  /\ Ups(thread.votes) = 1 /\ Downs(thread.votes) = 1
  /\ \E n \in AllNodes(thread.replies) : Downs(n.votes) = 2

\* C3: a voter without a vote on an entity who casts type T and then T again,
\* with no other cast on that entity in between, leaves the entity's ledger
\* and score as they were before the first cast, and is told their vote is null.
C3_ToggleRestores ==
  toggle.undone =>
    /\ TargetLedger = toggle.votes
    /\ lastOp.voteScore = Tally(toggle.votes)
    /\ lastOp.userVote = "null"

\* C3 witness: the second cast of such a pair has just been answered, on a
\* reply whose ledger held another voter's record throughout.
C3_Witness ==
  /\ toggle.undone
  /\ lastOp.kind = "voteOnReply"
  /\ Len(toggle.votes) = 1

\* C4: a cast of the opposite type by a voter who holds a vote flips that
\* record in place (same ledger size, same position, the other records
\* untouched) and moves the score by exactly +2 or -2.
C4_FlipInPlace ==
  LET i == findIndex(lastOp.before, lastOp.user) IN
  (IsCast /\ i # 0 /\ lastOp.before[i].type # lastOp.type) =>
    /\ Len(TargetLedger) = Len(lastOp.before)
    /\ TargetLedger[i] = [user |-> lastOp.user, type |-> lastOp.type]
    /\ \A j \in 1..Len(lastOp.before) : j # i => TargetLedger[j] = lastOp.before[j]
    /\ Tally(TargetLedger) - Tally(lastOp.before)
         = IF lastOp.type = "upvote" THEN 2 ELSE -2
    /\ lastOp.voteScore - Tally(lastOp.before)
         = IF lastOp.type = "upvote" THEN 2 ELSE -2

\* C4 witness: the first of two records was flipped from downvote to upvote.
C4_Witness ==
  /\ IsCast
  /\ Len(lastOp.before) = 2
  /\ findIndex(lastOp.before, lastOp.user) = 1
  /\ lastOp.before[1].type = "downvote"
  /\ lastOp.type = "upvote"

\* C5: the delta a successful vote applies to the author's reputation, before
\* the floor, is the entity's score after the cast minus its score before.
C5_DeltaIsScoreChange ==
  IsCast =>
    /\ lastOp.voteChange = Tally(TargetLedger) - Tally(lastOp.before)
    /\ reputation[lastOp.author]
         = Max(0, lastOp.repBefore + Tally(TargetLedger) - Tally(lastOp.before))

\* C5 witness: ledger [u1 up, u2 up], author reputation 10, u2 casts a
\* downvote: the score is 0 and the author's reputation 8.
C5_Witness ==
  /\ IsCast /\ lastOp.kind = "voteOnThread"
  /\ lastOp.before = <<[user |-> 1, type |-> "upvote"], [user |-> 2, type |-> "upvote"]>>
  /\ lastOp.user = 2 /\ lastOp.type = "downvote"
  /\ lastOp.repBefore = 10
  /\ lastOp.voteScore = 0
  /\ reputation[thread.author] = 8

\* C6: an author whose only votable content is the thread, and whose
\* reputation was base before any vote, has reputation max(0, base + N - M)
\* when the thread's ledger holds N upvotes and M downvotes.
C6_ReputationFormula ==
  (\A n \in AllNodes(thread.replies) : n.author # thread.author) =>
    reputation[thread.author]
      = Max(0, base[thread.author] + Ups(thread.votes) - Downs(thread.votes))

\* C7: every user's reputation is an integer >= 0 in every reachable state.
C7_ReputationFloor == \A u \in Users : reputation[u] \in Nat

\* C7 witness: a flip worth -2 reached an author whose reputation was 1.
C7_Witness ==
  /\ IsCast
  /\ lastOp.repBefore = 1
  /\ lastOp.voteChange = -2
  /\ reputation[lastOp.author] = 0

\* a tree without the node n and its subtree
RECURSIVE Without(_, _)
Without(replies, n) ==
  IF replies = <<>> THEN <<>>
  ELSE IF Head(replies) = n THEN Tail(replies)
  ELSE IF Without(Head(replies).replies, n) # Head(replies).replies
       THEN <<[Head(replies) EXCEPT !.replies = Without(Head(replies).replies, n)]>>
              \o Tail(replies)
       ELSE <<Head(replies)>> \o Without(Tail(replies), n)

\* upvote and downvote records of a whole tree
RECURSIVE TreeUps(_)
TreeUps(replies) ==
  IF replies = <<>> THEN 0
  ELSE Ups(Head(replies).votes) + TreeUps(Head(replies).replies) + TreeUps(Tail(replies))

RECURSIVE TreeDowns(_)
TreeDowns(replies) ==
  IF replies = <<>> THEN 0
  ELSE Downs(Head(replies).votes) + TreeDowns(Head(replies).replies)
         + TreeDowns(Tail(replies))

\* C8: deleteReply of a node R of the tree (at any depth: tree A->[B->[C]],
\* delete B) by R's author succeeds and removes exactly R and R's
\* descendants; every other node keeps its content, votes and position, and
\* the vote statistics count none of the removed votes.
C8_DeleteRemovesSubtree ==
  \A n \in AllNodes(thread.replies), now \in Times(thread) :
    LET out == deleteReply(thread, reputation, n.author, n.id, now) IN
    /\ out.result = "OK"
    /\ out.thread.replies = Without(thread.replies, n)
    /\ calculateReplyStats(out.thread.replies).upvotes = TreeUps(Without(thread.replies, n))
    /\ calculateReplyStats(out.thread.replies).downvotes
         = TreeDowns(Without(thread.replies, n))

\* C9: on an open thread, addReply with a parentReplyId that is the id of no
\* reply at any depth fails with NotFound and leaves the persisted thread
\* (tree and lastActivity) unchanged.
C9_UnknownParentNotFound ==
  ~thread.isLocked =>
    \A parentReplyId \in ReplyIds :
      (\A n \in AllNodes(thread.replies) : n.id # parentReplyId) =>
        \A user \in Users, content \in Contents, now \in Times(thread) :
          LET out == addReply(thread, reputation, user, content, parentReplyId, now, nextId)
          IN out.result = "NotFound" /\ out.thread = thread

Unlocked(t) == [t EXCEPT !.isLocked = FALSE]
Relocked(t) == [t EXCEPT !.isLocked = TRUE]

\* C10: while the thread is locked every addReply (top-level or nested) is
\* refused with Forbidden and changes nothing, whereas editReply and the
\* votes on the thread and on its replies answer and persist exactly what
\* they would on the same thread unlocked; in particular an author still
\* edits their own reply.
C10_LockBlocksOnlyReplies ==
  thread.isLocked =>
    /\ \A user \in Users, content \in Contents, parentReplyId \in ParentInputs,
          now \in Times(thread) :
         LET out == addReply(thread, reputation, user, content, parentReplyId, now, nextId)
         IN out.result = "Forbidden" /\ out.thread = thread /\ out.reputation = reputation
    /\ \A user \in Users, replyId \in ReplyIds, content \in Contents, now \in Times(thread) :
         LET locked == editReply(thread, reputation, user, replyId, content, now)
             open == editReply(Unlocked(thread), reputation, user, replyId, content, now)
         IN locked = [open EXCEPT !.thread = Relocked(open.thread)]
    /\ \A user \in Users, type \in VoteTypes :
         LET locked == voteOnThread(thread, reputation, user, type)
             open == voteOnThread(Unlocked(thread), reputation, user, type)
         IN locked = [open EXCEPT !.thread = Relocked(open.thread)]
    /\ \A user \in Users, replyId \in ReplyIds, type \in VoteTypes, now \in Times(thread) :
         LET locked == voteOnReply(thread, reputation, user, replyId, type, now)
             open == voteOnReply(Unlocked(thread), reputation, user, replyId, type, now)
         IN locked = [open EXCEPT !.thread = Relocked(open.thread)]
    /\ \A i \in 1..Len(thread.replies), content \in Contents, now \in Times(thread) :
         (\A j \in 1..(i - 1) : thread.replies[j].replies = <<>>) =>
           editReply(thread, reputation, thread.replies[i].author, thread.replies[i].id,
                     content, now).result = "OK"
    /\ lastOp.kind = "addReply" => lastOp.result = "Forbidden"
    /\ (lastOp.kind = "editReply" /\ lastOp.result = "OK") =>
         \E n \in AllNodes(thread.replies) :
           n.id = lastOp.target /\ n.isEdited /\ n.editedAt = thread.lastActivity

\* C10 witness: on a locked thread that holds a vote, a reply's author who is
\* no admin has just edited their reply.
C10_Witness ==
  /\ thread.isLocked
  /\ lastOp.kind = "editReply" /\ lastOp.result = "OK"
  /\ Role(lastOp.user) = "user"
  /\ thread.votes # <<>>

\* C11: editReply and deleteReply on an existing reply (at any depth) succeed
\* exactly when the requester is the reply's author or an admin; a refusal is
\* Forbidden and leaves the thread unchanged; a successful edit gives the node
\* the new content, isEdited and editedAt and keeps its id, author, votes and
\* children.
C11_AuthorOrAdminOnly ==
  \A n \in AllNodes(thread.replies), user \in Users, now \in Times(thread) :
    LET allowed == user = n.author \/ Role(user) = "admin"
        e == editReply(thread, reputation, user, n.id, "edited", now)
        d == deleteReply(thread, reputation, user, n.id, now)
    IN /\ (e.result = "OK") <=> allowed
       /\ (d.result = "OK") <=> allowed
       /\ ~allowed => /\ e.result = "Forbidden" /\ e.thread = thread
                      /\ d.result = "Forbidden" /\ d.thread = thread
       /\ e.result = "OK" =>
            \E m \in AllNodes(e.thread.replies) :
              m = [n EXCEPT !.content = "edited", !.isEdited = TRUE, !.editedAt = now]

\* the tree reduced to what identifies each node and its place
RECURSIVE Shape(_)
Shape(replies) ==
  [i \in 1..Len(replies) |->
     [id |-> replies[i].id, author |-> replies[i].author,
      parentReply |-> replies[i].parentReply, replies |-> Shape(replies[i].replies)]]

\* new is old with one node appended at the end of one child sequence
RECURSIVE AppendedOne(_, _)
AppendedOne(old, new) ==
  \/ Len(new) = Len(old) + 1 /\ SubSeq(new, 1, Len(old)) = old
  \/ /\ Len(new) = Len(old)
     /\ \E i \in 1..Len(old) :
          /\ \A j \in 1..Len(old) : j # i => new[j] = old[j]
          /\ new[i] = [old[i] EXCEPT !.replies = new[i].replies]
          /\ AppendedOne(old[i].replies, new[i].replies)

\* new is old with one node (and its subtree) taken out of one child sequence
RECURSIVE RemovedOne(_, _)
RemovedOne(old, new) ==
  \/ \E i \in 1..Len(old) : new = Splice(old, i)
  \/ /\ Len(new) = Len(old)
     /\ \E i \in 1..Len(old) :
          /\ \A j \in 1..Len(old) : j # i => new[j] = old[j]
          /\ new[i] = [old[i] EXCEPT !.replies = new[i].replies]
          /\ RemovedOne(old[i].replies, new[i].replies)

\* C12: in every child sequence siblings stay in insertion order: a
\* successful addReply appends one node at the end of one child sequence, a
\* successful deleteReply takes one node out and keeps the others in order,
\* and every other request (edits, votes, refused requests) keeps every child
\* sequence as it was; top-level ids, issued in insertion order, ascend.
C12_SiblingOrder ==
  [][/\ IF lastOp'.kind = "addReply" /\ lastOp'.result = "OK"
        THEN AppendedOne(Shape(thread.replies), Shape(thread'.replies))
        ELSE IF lastOp'.kind = "deleteReply" /\ lastOp'.result = "OK"
        THEN RemovedOne(Shape(thread.replies), Shape(thread'.replies))
        ELSE Shape(thread'.replies) = Shape(thread.replies)
     /\ \A i, j \in 1..Len(thread'.replies) :
          i < j => thread'.replies[i].id < thread'.replies[j].id]_vars

\* C12 witness: the first of two top-level replies has just been deleted and
\* the second is what remains.
C12_Witness ==
  /\ lastOp.kind = "deleteReply" /\ lastOp.result = "OK"
  /\ Len(thread.replies) = 1
  /\ thread.replies[1].id = 2

\* C12 witness of the append: a second child was added below a reply that
\* already held one.
C12_WitnessNested ==
  /\ lastOp.kind = "addReply" /\ lastOp.result = "OK"
  /\ Len(thread.replies) = 1 /\ Len(thread.replies[1].replies) = 2
  /\ thread.replies[1].replies[1].author # thread.replies[1].replies[2].author

\* Statistics specification: any votes by any voters on a thread holding two
\* top-level replies, the second with a nested reply, and the stats request
ThreadWithTwo == addReply(ThreadWithReply, <<>>, 2, "first", Null, 1, 2).thread
ThreadForStats == addReply(ThreadWithTwo, <<>>, 1, "first", 2, 1, 3).thread

InitStats ==
  /\ SeedForum
  /\ thread = ThreadForStats
  /\ reputation = [u \in Users |-> StatsBaseRep]
  /\ base = reputation
  /\ nextId = 3
  /\ lastOp = NoOp("init")
  /\ toggle = NoToggle
  /\ requests = NoRequests

\* the stats request reads the stored thread and writes nothing
GetVoteStats ==
  /\ lastOp' = NoOp("getVoteStats")
  /\ UNCHANGED <<thread, reputation, nextId, base, forumVars, requests>>

NextStats ==
  \/ \E user \in Voters, type \in VoteTypes :
       VoteOnThread(user, type) /\ UNCHANGED toggle
  \/ \E user \in Voters, replyId \in ReplyIds, type \in VoteTypes :
       VoteOnReply(user, replyId, type, thread.lastActivity) /\ UNCHANGED toggle
  \/ GetVoteStats /\ UNCHANGED toggle

SpecStats == InitStats /\ [][NextStats]_vars

\* the index paths of every node of a tree
RECURSIVE Paths(_)
Paths(replies) ==
  UNION {{<<i>>} \cup {<<i>> \o p : p \in Paths(replies[i].replies)} : i \in 1..Len(replies)}

RECURSIVE NodeAt(_, _)
NodeAt(replies, p) ==
  IF Len(p) = 1 THEN replies[p[1]] ELSE NodeAt(replies[p[1]].replies, Tail(p))

\* every vote record of the given type in a tree, named by its node and position
VoteRecords(replies, type) ==
  UNION {{<<p, k>> : k \in {k \in 1..Len(NodeAt(replies, p).votes) :
                              NodeAt(replies, p).votes[k].type = type}}
         : p \in Paths(replies)}

\* C13: the stats response gives for 'replies' the number of upvote and of
\* downvote records over every reply node at every depth, each node once, for
\* 'thread' the thread ledger's own tallies, for 'total' the sum of the two,
\* and every score is upvotes minus downvotes.
C13_VoteStats ==
  LET stats == getVoteStats(thread) IN
  /\ stats.replies.upvotes = Cardinality(VoteRecords(thread.replies, "upvote"))
  /\ stats.replies.downvotes = Cardinality(VoteRecords(thread.replies, "downvote"))
  /\ stats.thread.upvotes = Ups(thread.votes)
  /\ stats.thread.downvotes = Downs(thread.votes)
  /\ stats.total.upvotes = stats.thread.upvotes + stats.replies.upvotes
  /\ stats.total.downvotes = stats.thread.downvotes + stats.replies.downvotes
  /\ \A part \in {"thread", "replies", "total"} :
       stats[part].score = stats[part].upvotes - stats[part].downvotes

\* C13 witness: the stats are requested while the thread holds a downvote,
\* the first reply an upvote and a downvote, and the second reply, which has
\* a child, two upvotes.
C13_Witness ==
  /\ lastOp.kind = "getVoteStats"
  /\ Ups(thread.votes) = 0 /\ Downs(thread.votes) = 1
  /\ Ups(thread.replies[1].votes) = 1 /\ Downs(thread.replies[1].votes) = 1
  /\ Len(thread.replies[2].replies) = 1 /\ Ups(thread.replies[2].votes) = 2

\* ------------------------------------------------ forum actions and specs
CurrentDb == Db(threads, tags, categories, nextTagId)

\* the collections a forum handler leaves behind, within the model's bounds
Install(out) ==
  /\ out.db.nextTagId <= MaxTagId + 1
  /\ \A id \in DOMAIN out.db.tags : out.db.tags[id].usageCount <= MaxCount
  /\ \A c \in DOMAIN out.db.categories : out.db.categories[c].threadCount <= MaxCount
  /\ threads' = out.db.threads
  /\ tags' = out.db.tags
  /\ categories' = out.db.categories
  /\ nextTagId' = out.db.nextTagId

\* the creation time of a thread is the reading of a clock that advances
\* with every thread created
CreateThread(user, category, tagsIn) ==
  LET out == createThread(CurrentDb, user, category, tagsIn, nextThreadId, nextThreadId) IN
  /\ out.result = "OK" => nextThreadId <= MaxThreads
  /\ Install(out)
  /\ nextThreadId' = IF out.result = "OK" THEN nextThreadId + 1 ELSE nextThreadId
  /\ lastReq' = Req("createThread", out.result, 0, 0)
  /\ UNCHANGED <<treeVars, requests>>

UpdateThread(user, threadId, category, tagsIn) ==
  LET out == updateThread(CurrentDb, user, threadId, category, tagsIn) IN
  /\ Install(out)
  /\ lastReq' = Req("updateThread", out.result, 0, 0)
  /\ UNCHANGED <<nextThreadId, treeVars, requests>>

DeleteThread(user, threadId) ==
  LET out == deleteThread(CurrentDb, user, threadId) IN
  /\ Install(out)
  /\ lastReq' = Req("deleteThread", out.result, 0, 0)
  /\ UNCHANGED <<nextThreadId, treeVars, requests>>

MergeTags(user, sourceId, targetId) ==
  LET out == mergeTags(CurrentDb, user, sourceId, targetId) IN
  /\ Install(out)
  /\ lastReq' = Req("mergeTags", out.result, 0, 0)
  /\ UNCHANGED <<nextThreadId, treeVars, requests>>

\* the isPinned flag of the schema is written by no route: a moderator sets
\* or clears it on the stored document
SetPinned(threadId, pinned) ==
  /\ threadId \in DOMAIN threads
  /\ threads[threadId].isPinned # pinned
  /\ threads' = [threads EXCEPT ![threadId].isPinned = pinned]
  /\ lastReq' = Req("setPinned", "none", 0, 0)
  /\ UNCHANGED <<tags, categories, nextThreadId, nextTagId, treeVars, requests>>

\* GET / reads the collection and writes nothing
ListThreads(sort) ==
  /\ listThreads(threads, sort) # {}
  /\ lastReq' = Req("listThreads", "OK", 0, 0)
  /\ UNCHANGED <<threads, tags, categories, nextThreadId, nextTagId, treeVars, requests>>

\* GET /:threadId stores the thread it answers with
GetThread(requester, threadId) ==
  /\ threadId \in DOMAIN threads
  /\ getThread(threads[threadId], requester).views <= MaxViews
  /\ threads' = [threads EXCEPT ![threadId] = getThread(@, requester)]
  /\ lastReq' = Req("getThread", "OK", requester, threadId)
  /\ UNCHANGED <<tags, categories, nextThreadId, nextTagId, treeVars, requests>>

ThreadIds == 1..MaxThreads
TagIds == 1..MaxTagId
\* a body that spells the category id in lower case, and one without tags
LowerCategories == {c \in CategoryInputs : ~c.upper}
NoTags == [given |-> FALSE, names |-> <<>>]

\* Thread specification: threads are created, edited and deleted
NextThreads ==
  \/ \E user \in Users, category \in CategoryInputs, tagsIn \in TagInputs :
       CreateThread(user, category, tagsIn)
  \/ \E user \in Users, threadId \in ThreadIds, category \in CategoryInputs,
        tagsIn \in TagInputs :
       UpdateThread(user, threadId, category, tagsIn)
  \/ \E user \in Users, threadId \in ThreadIds : DeleteThread(user, threadId)

SpecThreads == Init /\ [][NextThreads]_vars

\* Tag specification: threads of one category are created, retagged and
\* deleted, and an admin merges tags
NextTags ==
  \/ \E user \in Users, tagsIn \in TagInputs :
       CreateThread(user, [id |-> 1, upper |-> FALSE], tagsIn)
  \/ \E user \in Users, threadId \in ThreadIds, tagsIn \in TagInputs :
       UpdateThread(user, threadId, [id |-> 1, upper |-> FALSE], tagsIn)
  \/ \E user \in Users, threadId \in ThreadIds : DeleteThread(user, threadId)
  \/ \E user \in Users, sourceId \in TagIds, targetId \in 0..MaxTagId :
       MergeTags(user, sourceId, targetId)

SpecTags == Init /\ [][NextTags]_vars

\* Listing specification: untagged threads are created, pinned, read and listed
NextList ==
  \/ \E user \in Users, category \in LowerCategories :
       CreateThread(user, category, NoTags)
  \/ \E threadId \in ThreadIds, pinned \in BOOLEAN : SetPinned(threadId, pinned)
  \/ \E requester \in Users \cup {Anonymous}, threadId \in ThreadIds :
       GetThread(requester, threadId)
  \/ \E sort \in SortOptions : ListThreads(sort)

SpecList == Init /\ [][NextList]_vars

\* ------------------------------------------------------ forum properties
\* the threads whose tag array references the tag, and whose category is c
Referencing(threadDocs, tag) ==
  {id \in DOMAIN threadDocs : \E i \in 1..Len(threadDocs[id].tags) : threadDocs[id].tags[i] = tag}
InCategory(threadDocs, c) == {id \in DOMAIN threadDocs : threadDocs[id].category = c}
Occurrences(tagIds, tag) == Cardinality({i \in 1..Len(tagIds) : tagIds[i] = tag})

\* C14: a thread created with the tag names ["React", "react"] references the
\* one tag `react` once, and that tag's usageCount goes up by exactly 1.
C14_DuplicateNamesOnce ==
  \A user \in Users, category \in LowerCategories :
    LET before == findOne(tags, "react")
        out == createThread(CurrentDb, user, category,
                            [given |-> TRUE, names |-> <<"React", "react">>],
                            nextThreadId, nextThreadId)
        tag == findOne(out.db.tags, "react")
    IN out.result = "OK" =>
         /\ tag # 0
         /\ out.db.threads[nextThreadId].tags = <<tag>>
         /\ out.db.tags[tag].usageCount
              = (IF before = 0 THEN 0 ELSE tags[before].usageCount) + 1

\* C15: after any sequence of createThread, editThread and deleteThread every
\* tag's usageCount is the number of existing threads that reference the tag.
C15_TagCountsAgree ==
  \A tag \in DOMAIN tags :
    tags[tag].usageCount = Cardinality(Referencing(threads, tag))

\* C16: when the usage counters agree with the references, a merge of source
\* tag S into target tag T (S # T, both existing) by an admin succeeds, S no
\* longer exists, no thread references S, every thread that referenced S
\* references T exactly once, and T's usageCount is the number of threads
\* referencing T.
C16_MergeRepoints ==
  C15_TagCountsAgree =>
    \A user \in Users, S \in DOMAIN tags, T \in DOMAIN tags :
      (Role(user) = "admin" /\ S # T) =>
        LET out == mergeTags(CurrentDb, user, S, T) IN
        /\ out.result = "OK"
        /\ S \notin DOMAIN out.db.tags
        /\ Referencing(out.db.threads, S) = {}
        /\ \A id \in Referencing(threads, S) : Occurrences(out.db.threads[id].tags, T) = 1
        /\ out.db.tags[T].usageCount = Cardinality(Referencing(out.db.threads, T))

\* C17: after any sequence of createThread, editThread (moves and refused
\* edits included) and deleteThread every category's threadCount is the
\* number of existing threads of that category.
C17_CategoryCountsAgree ==
  \A c \in DOMAIN categories :
    categories[c].threadCount = Cardinality(InCategory(threads, c))

\* C18: deleteThread by the thread's author or an admin takes 1 (floored at
\* 0) from the threadCount of the thread's category and from the usageCount
\* of every tag the thread references, and removes the thread with its reply
\* tree and votes; a delete refused with Forbidden or NotFound changes nothing.
C18_DeleteThreadCounters ==
  \A user \in Users, threadId \in ThreadIds :
    LET out == deleteThread(CurrentDb, user, threadId) IN
    IF threadId \notin DOMAIN threads
    THEN out.result = "NotFound" /\ out.db = CurrentDb
    ELSE IF threads[threadId].author # user /\ Role(user) # "admin"
    THEN out.result = "Forbidden" /\ out.db = CurrentDb
    ELSE /\ out.result = "OK"
         /\ out.db.threads = Drop(threads, threadId)
         /\ out.db.categories =
              [c \in DOMAIN categories |->
                 IF c = threads[threadId].category
                 THEN [threadCount |-> Max(0, categories[c].threadCount - 1)]
                 ELSE categories[c]]
         /\ out.db.tags =
              [tag \in DOMAIN tags |->
                 IF threadId \in Referencing(threads, tag)
                 THEN [tags[tag] EXCEPT !.usageCount = Max(0, @ - 1)]
                 ELSE tags[tag]]

\* C19: in every list the thread listing returns, under each of the sort
\* options, every pinned thread comes before every thread that is not pinned.
C19_PinnedFirst ==
  \A sort \in SortOptions : \A list \in listThreads(threads, sort) :
    \A i, j \in DOMAIN list :
      (threads[list[i]].isPinned /\ ~threads[list[j]].isPinned) => i < j

\* C20: a getThread by an anonymous caller or by a user who is not the
\* thread's author adds exactly 1 to the thread's views, a getThread by the
\* author adds nothing, and either way every other field of the thread
\* (votes, reply tree, flags, lastActivity), every other thread and every
\* user's reputation stay as they were.
C20_ViewCounter ==
  [][lastReq'.kind = "getThread" =>
       LET id == lastReq'.target
           requester == lastReq'.user
           counted == requester = Anonymous \/ requester # threads[id].author
       IN /\ threads' = [threads EXCEPT ![id].views = @ + (IF counted THEN 1 ELSE 0)]
          /\ reputation' = reputation
          /\ thread' = thread]_vars

\* C20 witness: the seeded thread, which holds a vote and a reply tree, has
\* been read twice by others and has just been read by its author.
C20_Witness ==
  /\ lastReq.kind = "getThread"
  /\ lastReq.target \in DOMAIN threads
  /\ lastReq.user = threads[lastReq.target].author
  /\ threads[lastReq.target].views = 2
  /\ threads[lastReq.target].votes # <<>>
  /\ threads[lastReq.target].replies # <<>>


\* ------------------------------------------------ vote requests in flight
\* A vote handler awaits four calls; another request may run between any
\* two of them. A request in flight holds the thread it loaded (`loaded`),
\* its copy after the in-memory cast (`doc`), the delta it computed
\* (`change`), the reputation it read (`rep`) and the call it makes next.

\* a vote handler that writes the author's reputation before the ledger
voteStepsAuthorFirst == <<"findThread", "findAuthor", "saveAuthor", "saveThread">>

\* the awaited calls of a vote handler, in the order the handler makes them
voteSteps == <<"findThread", "saveThread", "findAuthor", "saveAuthor">>

\* a save that adds the votes of the copy's new voters to the stored ledger
saveDocumentMerging(stored, doc) ==
  [doc EXCEPT !.votes = stored.votes \o
     SelectSeq(doc.votes, LAMBDA v : findIndex(stored.votes, v.user) = 0)]

\* thread.save(): the stored thread becomes the copy the request holds
saveDocument(stored, doc) == doc

VoteKinds == {"voteOnThread", "voteOnReply"}

VoteRequest(threadId, user, replyId, type) ==
  [kind |-> IF replyId = Null THEN "voteOnThread" ELSE "voteOnReply",
   result |-> "pending", pc |-> 1, threadId |-> threadId, user |-> user,
   replyId |-> replyId, type |-> type, loaded |-> NoDocument, doc |-> NoDocument,
   change |-> 0, author |-> 0, rep |-> 0, raced |-> FALSE]

\* the request has been received and has neither answered nor stopped
InFlight(r) == requests[r].kind # "none" /\ requests[r].result = "pending"

\* the request is a vote about to make the given call
AtVoteStep(r, step) ==
  /\ requests[r].kind \in VoteKinds
  /\ InFlight(r)
  /\ voteSteps[requests[r].pc] = step

\* the vote request q has made the given call
Passed(q, step) == \E i \in 1..(q.pc - 1) : voteSteps[i] = step

\* after the last call the handler answers 200 and its copies of the
\* documents are released
Advance(q) ==
  IF q.pc = Len(voteSteps)
  THEN [q EXCEPT !.pc = @ + 1, !.result = "OK", !.loaded = NoDocument,
                 !.doc = NoDocument, !.change = 0, !.rep = 0]
  ELSE [q EXCEPT !.pc = @ + 1]

\* another vote request holds a copy of the same thread that it has loaded
\* and not yet saved
Rival(r) ==
  \E o \in Requests \ {r} :
    /\ requests[o].kind \in VoteKinds
    /\ InFlight(o)
    /\ requests[o].threadId = requests[r].threadId
    /\ Passed(requests[o], "findThread") /\ ~Passed(requests[o], "saveThread")

\* the request arrives (its type is valid: it passed the first check)
StartVote(r, threadId, user, replyId, type) ==
  /\ ~InFlight(r)
  /\ requests' = [requests EXCEPT ![r] = VoteRequest(threadId, user, replyId, type)]
  /\ UNCHANGED <<treeVars, forumVars>>

\* Thread.findById, then the cast on the loaded copy
FindThread(r) ==
  LET q == requests[r]
      t == threads[q.threadId]
      out == IF q.kind = "voteOnThread"
             THEN voteOnThread(t, reputation, q.user, q.type)
             ELSE voteOnReply(t, reputation, q.user, q.replyId, q.type, t.lastActivity)
  IN /\ AtVoteStep(r, "findThread")
     /\ requests' = [requests EXCEPT ![r] =
          IF q.threadId \notin DOMAIN threads THEN [q EXCEPT !.result = "NotFound"]
          ELSE IF out.result # "OK" THEN [q EXCEPT !.result = out.result]
          ELSE Advance([q EXCEPT !.loaded = t, !.doc = out.thread,
                                 !.change = out.voteChange,
                                 !.author = IF q.kind = "voteOnThread" THEN t.author
                                            ELSE AuthorOf(t.replies, q.replyId)])]
     /\ UNCHANGED <<treeVars, forumVars>>

\* await thread.save()
SaveThread(r, now) ==
  LET q == requests[r] IN
  /\ AtVoteStep(r, "saveThread")
  /\ q.threadId \in DOMAIN threads
  /\ threads' = [threads EXCEPT ![q.threadId] =
                   saveDocument(@, preSave(q.loaded, q.doc, now))]
  /\ requests' = [requests EXCEPT ![r] = Advance([q EXCEPT !.raced = Rival(r)])]
  /\ UNCHANGED <<treeVars, tags, categories, nextThreadId, nextTagId, lastReq>>

\* const author = await User.findById(...)
FindAuthor(r) ==
  LET q == requests[r] IN
  /\ AtVoteStep(r, "findAuthor")
  /\ requests' = [requests EXCEPT ![r] = Advance([q EXCEPT !.rep = reputation[q.author]])]
  /\ UNCHANGED <<treeVars, forumVars>>

\* author.reputation = Math.max(0, author.reputation + voteChange); author.save()
SaveAuthor(r) ==
  LET q == requests[r] IN
  /\ AtVoteStep(r, "saveAuthor")
  /\ adjustReputation(q.rep, q.change) <= MaxRep
  /\ reputation' = [reputation EXCEPT ![q.author] = adjustReputation(q.rep, q.change)]
  /\ requests' = [requests EXCEPT ![r] = Advance(q)]
  /\ UNCHANGED <<thread, nextId, lastOp, toggle, base, forumVars>>

\* the process serving the request stops (crash, kill, lost connection to
\* the database): the request makes no further call and its copies of the
\* documents are gone
StopRequest(r) ==
  /\ requests[r].kind \in VoteKinds
  /\ InFlight(r)
  /\ requests' = [requests EXCEPT ![r].result = "stopped",
                                  ![r].loaded = NoDocument, ![r].doc = NoDocument]
  /\ UNCHANGED <<treeVars, forumVars>>

\* two threads of one author in one category, nobody has voted yet
RaceThreads == Put(Put(<<>>, 1, ThreadWithReply), 2, NewThread)

InitVoteRace ==
  /\ thread = NewThread
  /\ reputation = [u \in Users |-> RaceBaseRep]
  /\ base = reputation
  /\ nextId = 1
  /\ lastOp = NoOp("init")
  /\ toggle = NoToggle
  /\ threads = RaceThreads
  /\ tags = <<>>
  /\ categories = [c \in CategoryIds |-> [threadCount |-> IF c = 1 THEN 2 ELSE 0]]
  /\ nextThreadId = 3
  /\ nextTagId = 1
  /\ lastReq = Req("init", "none", 0, 0)
  /\ requests = NoRequests

\* Vote-race specification: each of the requests is one vote on a thread,
\* and their calls interleave in every order
NextVoteRace ==
  \/ \E r \in Requests, threadId \in ThreadIds, user \in Voters, type \in VoteTypes :
       requests[r] = Idle /\ StartVote(r, threadId, user, Null, type)
  \/ \E r \in Requests : FindThread(r)
  \/ \E r \in Requests : SaveThread(r, threads[requests[r].threadId].lastActivity)
  \/ \E r \in Requests : FindAuthor(r)
  \/ \E r \in Requests : SaveAuthor(r)

SpecVoteRace == InitVoteRace /\ [][NextVoteRace]_vars

\* Crash specification: votes on one thread and upvotes of one voter on its
\* reply run one after the other, and a request may stop between any two
\* of its calls
NextCrash ==
  \/ \E r \in Requests, user \in Voters, type \in VoteTypes :
       /\ \A o \in Requests : ~InFlight(o)
       /\ requests[r].result # "stopped"
       /\ StartVote(r, 1, user, Null, type)
  \/ \E r \in Requests :
       /\ \A o \in Requests : ~InFlight(o)
       /\ requests[r].result # "stopped"
       /\ StartVote(r, 1, TreeVoter, 1, "upvote")
  \/ \E r \in Requests : FindThread(r)
  \/ \E r \in Requests : SaveThread(r, threads[requests[r].threadId].lastActivity)
  \/ \E r \in Requests : FindAuthor(r)
  \/ \E r \in Requests : SaveAuthor(r)
  \/ \E r \in Requests :
       /\ Cardinality({o \in Requests : requests[o].result = "stopped"}) < MaxStops
       /\ StopRequest(r)

SpecCrash == InitVoteRace /\ [][NextCrash]_vars


\* -------------------------------------------------- concurrency properties
\* the request has answered
Answered(r) == requests[r].kind # "none" /\ requests[r].result \notin {"pending", "stopped"}

\* r and q are votes of two voters on the same thread, both have answered,
\* no other request touched that thread, and r saved the thread while q
\* held a copy it had loaded and not yet saved
LostUpdatePair(r, q) ==
  /\ r # q
  /\ requests[r].kind = "voteOnThread" /\ requests[q].kind = "voteOnThread"
  /\ Answered(r) /\ Answered(q)
  /\ requests[r].threadId = requests[q].threadId
  /\ requests[r].user # requests[q].user
  /\ requests[r].raced
  /\ \A o \in Requests \ {r, q} :
       requests[o].kind \in VoteKinds => requests[o].threadId # requests[r].threadId

\* C21: two voteOnThread requests of distinct voters are not serialized.
\* When both have loaded the thread before either saves it, both answer
\* with success, and the stored ledger is the copy of the request that
\* saved last: the cast of the one that saved first is gone from it (that
\* voter's entry is what it was before the two requests).
C21_LostVote ==
  \A r \in Requests, q \in Requests :
    LostUpdatePair(r, q) =>
      LET stored == threads[requests[r].threadId].votes
          before == RaceThreads[requests[r].threadId].votes
      IN /\ requests[r].result = "OK" /\ requests[q].result = "OK"
         /\ stored = applyVote(before, requests[q].user, requests[q].type).votes
         /\ userVote(stored, requests[r].user) = userVote(before, requests[r].user)

\* C21 witness: two voters without a vote upvoted the same thread, both
\* loaded it before either saved, both were answered with success and both
\* deltas reached the author's reputation, yet the ledger holds one vote.
C21_Witness ==
  \E r \in Requests, q \in Requests :
    /\ LostUpdatePair(r, q)
    /\ requests[r].type = "upvote" /\ requests[q].type = "upvote"
    /\ requests[r].result = "OK" /\ requests[q].result = "OK"
    /\ RaceThreads[requests[r].threadId].votes = <<>>
    /\ Len(threads[requests[r].threadId].votes) = 1
    /\ reputation[requests[r].author] = base[requests[r].author] + 2


\* the stored threads and reputations after the vote request q has run
\* alone, from start to answer, on the stored state s
afterVote(s, q) ==
  LET out == voteOnThread(s.threads[q.threadId], s.reputation, q.user, q.type) IN
  [threads |-> [s.threads EXCEPT ![q.threadId] = out.thread],
   reputation |-> out.reputation]

\* C22: two concurrent requests on two different threads leave, in every
\* interleaving, the state that one of their two serial orders leaves,
\* shared state included: here two votes on two threads of one author,
\* whose reputation both requests read and write.
C22_DifferentThreadsSerializable ==
  \A r \in Requests, q \in Requests :
    ( /\ r # q
      /\ requests[r].kind = "voteOnThread" /\ requests[q].kind = "voteOnThread"
      /\ Answered(r) /\ Answered(q)
      /\ requests[r].threadId # requests[q].threadId
      /\ \A o \in Requests \ {r, q} : requests[o] = Idle )
    => LET start == [threads |-> RaceThreads, reputation |-> base]
           final == [threads |-> threads, reputation |-> reputation]
       IN final \in {afterVote(afterVote(start, requests[r]), requests[q]),
                     afterVote(afterVote(start, requests[q]), requests[r])}


\* the sum of f over the finite set S
RECURSIVE Sum(_, _)
Sum(f, S) ==
  IF S = {} THEN 0
  ELSE LET x == CHOOSE y \in S : TRUE IN f[x] + Sum(f, S \ {x})

\* the vote scores of the replies of a tree that u wrote
RECURSIVE AuthorScore(_, _)
AuthorScore(replies, u) ==
  IF replies = <<>> THEN 0
  ELSE LET n == Head(replies) IN
       (IF n.author = u THEN Tally(n.votes) ELSE 0)
         + AuthorScore(n.replies, u) + AuthorScore(Tail(replies), u)

\* the vote score of everything u wrote, as the stored ledgers have it
Earned(u) ==
  Sum([id \in DOMAIN threads |->
         (IF threads[id].author = u THEN Tally(threads[id].votes) ELSE 0)
           + AuthorScore(threads[id].replies, u)],
      DOMAIN threads)

\* the deltas of the vote requests that have saved their ledger and have
\* not written u's reputation
Owed(u) ==
  Sum([r \in Requests |->
         IF /\ requests[r].kind \in VoteKinds
            /\ requests[r].author = u
            /\ Passed(requests[r], "saveThread")
            /\ ~Passed(requests[r], "saveAuthor")
         THEN requests[r].change ELSE 0],
      Requests)

\* C23: a vote handler persists the ledger in a write of its own before it
\* reads and writes the author's reputation. A request that stops between
\* the two writes leaves its vote in the stored ledger and the reputation
\* at its old value, and nothing repairs that later: at every moment the
\* score the ledgers give an author exceeds the reputation gained since
\* the start by exactly the deltas of the requests that saved the ledger
\* and did not write the reputation.
C23_LedgerBeforeReputation ==
  /\ \A r \in Requests :
       requests[r].kind \in VoteKinds =>
         (Passed(requests[r], "findAuthor") => Passed(requests[r], "saveThread"))
  /\ \A u \in Users : Earned(u) - (reputation[u] - base[u]) = Owed(u)

\* C23 witness: a thread vote stopped between its two writes, and a later
\* vote of another voter on the same thread, pushed behind the stopped
\* request's vote, has completed; the reputation misses the stopped delta.
C23_Witness ==
  \E r \in Requests, q \in Requests :
    /\ requests[r].kind = "voteOnThread" /\ requests[r].result = "stopped"
    /\ Passed(requests[r], "saveThread") /\ ~Passed(requests[r], "saveAuthor")
    /\ requests[r].change # 0
    /\ requests[q].kind = "voteOnThread" /\ requests[q].result = "OK"
    /\ requests[r].user # requests[q].user
    /\ Len(threads[1].votes) = 2 /\ threads[1].votes[1].user = requests[r].user
    /\ Earned(requests[r].author) # reputation[requests[r].author] - base[requests[r].author]


\* ------------------------------------------------ properties of one request
\* the ids of the replies of a tree that have one
RECURSIVE IdsIn(_)
IdsIn(replies) ==
  IF replies = <<>> THEN {}
  ELSE ({Head(replies).id} \ {Undefined})
         \cup IdsIn(Head(replies).replies) \cup IdsIn(Tail(replies))

\* C24: a vote whose type is neither 'upvote' nor 'downvote' fails with
\* InvalidVote, also when its thread does not exist; a vote of a valid type
\* whose thread or whose reply does not exist fails with NotFound; in both
\* cases the thread and the reputations stay as they were.
C24_VoteRefusals ==
  \A user \in Voters, replyId \in ReplyIds, now \in Times(thread) :
    /\ \A type \in InvalidTypes, t \in {thread, NoDocument} :
         /\ voteOnThread(t, reputation, user, type)
              = Outcome("InvalidVote", t, reputation, 0, "null", 0)
         /\ voteOnReply(t, reputation, user, replyId, type, now)
              = Outcome("InvalidVote", t, reputation, 0, "null", 0)
    /\ \A type \in VoteTypes :
         /\ voteOnThread(NoDocument, reputation, user, type)
              = Outcome("NotFound", NoDocument, reputation, 0, "null", 0)
         /\ voteOnReply(NoDocument, reputation, user, replyId, type, now)
              = Outcome("NotFound", NoDocument, reputation, 0, "null", 0)
         /\ replyId \notin IdsIn(thread.replies) =>
              voteOnReply(thread, reputation, user, replyId, type, now)
                = Outcome("NotFound", thread, reputation, 0, "null", 0)


\* C25: every reply node of the tree, at every depth, has an identity of
\* its own, different from that of every other node, and a request that
\* names it finds it: its author can edit it.
C25_EveryNodeHasId ==
  /\ \A n \in AllNodes(thread.replies) : n.id # Undefined
  /\ Cardinality(IdsIn(thread.replies)) = TreeSize(thread.replies)
  /\ \A n \in AllNodes(thread.replies), now \in Times(thread) :
       editReply(thread, reputation, n.author, n.id, "edited", now).result = "OK"


\* C26: every successful addReply, top-level or nested, leaves lastActivity
\* at the time of that insertion, and no request ever moves lastActivity
\* back.
C26_LastActivity ==
  [][ /\ thread'.lastActivity >= thread.lastActivity
      /\ \A user \in Users, content \in Contents, parentReplyId \in ParentInputs,
            now \in Times(thread) :
           LET out == addReply(thread, reputation, user, content, parentReplyId, now, nextId)
           IN out.result = "OK" => out.thread.lastActivity = now
      /\ (lastOp'.kind = "addReply" /\ lastOp'.result = "OK") =>
           \E now \in Times(thread) :
             /\ thread'.lastActivity = now
             /\ TreeSize(thread'.replies) = TreeSize(thread.replies) + 1 ]_vars

\* C26 witness: a nested reply has just been added at a time later than the
\* thread's creation, and lastActivity is that time.
C26_Witness ==
  /\ lastOp.kind = "addReply" /\ lastOp.result = "OK"
  /\ lastOp.target \notin {Null, EmptyString}
  /\ thread.lastActivity > thread.createdAt
  /\ thread.lastActivity = MaxClock


\* C27: editReply and deleteReply answer Forbidden only when the requester
\* is neither the author of the reply nor an admin; a failed write of the
\* thread after the in-memory change is never answered with Forbidden.
C27_ForbiddenOnlyForAuthorization ==
  \A user \in Users, replyId \in ReplyIds, now \in Times(thread), saved \in BOOLEAN :
    LET e == innerCatch(editReply(thread, reputation, user, replyId, "edited", now),
                        thread, reputation, saved)
        d == innerCatch(deleteReply(thread, reputation, user, replyId, now),
                        thread, reputation, saved)
    IN \A out \in {e, d} :
         out.result = "Forbidden" =>
           \E n \in AllNodes(thread.replies) : n.id = replyId /\ notAuthorized(n, user)


\* the last request put a vote where the voter had none, and the request
\* that follows it is the same voter's cast of the same type on the same
\* entity
ToggledOff ==
  /\ lastOp.kind \in VoteKinds /\ lastOp.result = "OK"
  /\ findIndex(lastOp.before, lastOp.user) = 0
  /\ lastOp'.kind = lastOp.kind /\ lastOp'.result = "OK"
  /\ lastOp'.target = lastOp.target
  /\ lastOp'.user = lastOp.user
  /\ lastOp'.type = lastOp.type

\* C29: whatever the author's reputation r >= 0 is, 0 included, a voter
\* without a vote who casts a type and casts it again at once leaves the
\* reputation at r; in particular a downvote put on and taken off does not
\* raise it.
C29_ToggleKeepsReputation ==
  [][ToggledOff => reputation'[lastOp.author] = lastOp.repBefore]_vars


\* ----------------------------------------------- forum requests in flight
\* The thread and category handlers await every database call; another
\* request may run between any two of them. The requests carry no tags and
\* the threads have none, so the tag loops make no call.

\* Model.findById: the stored document, or null
findById(docs, id) == IF id \in DOMAIN docs THEN docs[id] ELSE NoDocument

ForumRequest(kind, user, threadId, category) ==
  [kind |-> kind, result |-> "pending",
   pc |-> IF kind \in {"createThread", "deleteCategory"} THEN "findCategory"
          ELSE "findThread",
   user |-> user, threadId |-> threadId, category |-> category,
   doc |-> NoDocument, categoryDoc |-> NoDocument,
   oldCategory |-> NoDocument, newCategory |-> NoDocument]

\* the request of that kind is about to make the given call
AtStep(r, kind, step) ==
  requests[r].kind = kind /\ InFlight(r) /\ requests[r].pc = step

\* the handler goes on to its next call / answers
Goto(q, step) == [q EXCEPT !.pc = step]
Respond(q, result) == [q EXCEPT !.result = result]

\* the variables no thread or category handler writes when it carries no tags
forumRest == <<treeVars, tags, nextTagId, lastReq>>

StartForum(r, kind, user, threadId, category) ==
  /\ requests[r] = Idle
  /\ requests' = [requests EXCEPT ![r] = ForumRequest(kind, user, threadId, category)]
  /\ UNCHANGED <<threads, categories, nextThreadId, forumRest>>

\* POST / (threads router): const categoryDoc = await Category.findById(category)
CreateFindCategory(r) ==
  LET q == requests[r]
      found == findById(categories, q.category) IN
  /\ AtStep(r, "createThread", "findCategory")
  /\ requests' = [requests EXCEPT ![r] =
       IF found = NoDocument THEN Respond(q, "BadRequest")
       ELSE Goto([q EXCEPT !.categoryDoc = found], "saveThread")]
  /\ UNCHANGED <<threads, categories, nextThreadId, forumRest>>

\* await thread.save() of the new thread
CreateSaveThread(r) ==
  LET q == requests[r] IN
  /\ AtStep(r, "createThread", "saveThread")
  /\ nextThreadId <= MaxRaceThreads
  /\ threads' = Put(threads, nextThreadId, newThread(q.user, q.category, <<>>, nextThreadId))
  /\ nextThreadId' = nextThreadId + 1
  /\ requests' = [requests EXCEPT ![r] = Goto(q, "saveCategory")]
  /\ UNCHANGED <<categories, forumRest>>

\* categoryDoc.threadCount += 1; await categoryDoc.save(): the save of a
\* document deleted in the meantime rejects
CreateSaveCategory(r) ==
  LET q == requests[r] IN
  /\ AtStep(r, "createThread", "saveCategory")
  /\ q.categoryDoc.threadCount + 1 <= MaxCount
  /\ IF q.category \in DOMAIN categories
     THEN /\ categories' = [categories EXCEPT ![q.category].threadCount =
                                                q.categoryDoc.threadCount + 1]
          /\ requests' = [requests EXCEPT ![r] = Respond(q, "OK")]
     ELSE /\ categories' = categories
          /\ requests' = [requests EXCEPT ![r] = Respond(q, "ServerError")]
  /\ UNCHANGED <<threads, nextThreadId, forumRest>>

\* PUT /:threadId: Thread.findById, the permission check, and the
\* comparison of the body's category (spelled in lower case) with the thread's
UpdateFindThread(r) ==
  LET q == requests[r]
      t == findById(threads, q.threadId) IN
  /\ AtStep(r, "updateThread", "findThread")
  /\ requests' = [requests EXCEPT ![r] =
       IF t = NoDocument THEN Respond(q, "NotFound")
       ELSE IF t.author # q.user /\ Role(q.user) # "admin" THEN Respond(q, "Forbidden")
       ELSE Goto([q EXCEPT !.doc = t],
                 IF q.category # t.category THEN "findOldCategory" ELSE "saveThread")]
  /\ UNCHANGED <<threads, categories, nextThreadId, forumRest>>

\* const oldCategory = await Category.findById(thread.category)
UpdateFindOldCategory(r) ==
  LET q == requests[r] IN
  /\ AtStep(r, "updateThread", "findOldCategory")
  /\ requests' = [requests EXCEPT ![r] =
       Goto([q EXCEPT !.oldCategory = findById(categories, q.doc.category)],
            "findNewCategory")]
  /\ UNCHANGED <<threads, categories, nextThreadId, forumRest>>

\* const newCategory = await Category.findById(category); a null newCategory
\* answers 400, a null oldCategory throws at oldCategory.threadCount
UpdateFindNewCategory(r) ==
  LET q == requests[r]
      found == findById(categories, q.category) IN
  /\ AtStep(r, "updateThread", "findNewCategory")
  /\ requests' = [requests EXCEPT ![r] =
       IF found = NoDocument THEN Respond(q, "BadRequest")
       ELSE IF q.oldCategory = NoDocument THEN Respond(q, "ServerError")
       ELSE Goto([q EXCEPT !.newCategory = found], "saveOldCategory")]
  /\ UNCHANGED <<threads, categories, nextThreadId, forumRest>>

\* oldCategory.threadCount -= 1; ... await oldCategory.save()
UpdateSaveOldCategory(r) ==
  LET q == requests[r] IN
  /\ AtStep(r, "updateThread", "saveOldCategory")
  /\ IF q.doc.category \in DOMAIN categories
     THEN /\ categories' = [categories EXCEPT ![q.doc.category].threadCount =
                                                q.oldCategory.threadCount - 1]
          /\ requests' = [requests EXCEPT ![r] = Goto(q, "saveNewCategory")]
     ELSE /\ categories' = categories
          /\ requests' = [requests EXCEPT ![r] = Respond(q, "ServerError")]
  /\ UNCHANGED <<threads, nextThreadId, forumRest>>

\* newCategory.threadCount += 1; ... await newCategory.save()
UpdateSaveNewCategory(r) ==
  LET q == requests[r] IN
  /\ AtStep(r, "updateThread", "saveNewCategory")
  /\ q.newCategory.threadCount + 1 <= MaxCount
  /\ IF q.category \in DOMAIN categories
     THEN /\ categories' = [categories EXCEPT ![q.category].threadCount =
                                                q.newCategory.threadCount + 1]
          /\ requests' = [requests EXCEPT ![r] = Goto(q, "saveThread")]
     ELSE /\ categories' = categories
          /\ requests' = [requests EXCEPT ![r] = Respond(q, "ServerError")]
  /\ UNCHANGED <<threads, nextThreadId, forumRest>>

\* thread.category = category; ... await thread.save()
UpdateSaveThread(r) ==
  LET q == requests[r] IN
  /\ AtStep(r, "updateThread", "saveThread")
  /\ IF q.threadId \in DOMAIN threads
     THEN /\ threads' = [threads EXCEPT ![q.threadId] =
                           saveDocument(@, [q.doc EXCEPT !.isEdited = TRUE,
                                                         !.category = q.category])]
          /\ requests' = [requests EXCEPT ![r] = Respond(q, "OK")]
     ELSE /\ threads' = threads
          /\ requests' = [requests EXCEPT ![r] = Respond(q, "ServerError")]
  /\ UNCHANGED <<categories, nextThreadId, forumRest>>

\* DELETE /:threadId: Thread.findById and the permission check
DeleteFindThread(r) ==
  LET q == requests[r]
      t == findById(threads, q.threadId) IN
  /\ AtStep(r, "deleteThread", "findThread")
  /\ requests' = [requests EXCEPT ![r] =
       IF t = NoDocument THEN Respond(q, "NotFound")
       ELSE IF t.author # q.user /\ Role(q.user) # "admin" THEN Respond(q, "Forbidden")
       ELSE Goto([q EXCEPT !.doc = t], "findCategory")]
  /\ UNCHANGED <<threads, categories, nextThreadId, forumRest>>

\* const category = await Category.findById(thread.category); if (category) ...
DeleteFindCategory(r) ==
  LET q == requests[r]
      found == findById(categories, q.doc.category) IN
  /\ AtStep(r, "deleteThread", "findCategory")
  /\ requests' = [requests EXCEPT ![r] =
       Goto([q EXCEPT !.categoryDoc = found],
            IF found = NoDocument THEN "removeThread" ELSE "saveCategory")]
  /\ UNCHANGED <<threads, categories, nextThreadId, forumRest>>

\* category.threadCount = Math.max(0, category.threadCount - 1); await category.save()
DeleteSaveCategory(r) ==
  LET q == requests[r] IN
  /\ AtStep(r, "deleteThread", "saveCategory")
  /\ IF q.doc.category \in DOMAIN categories
     THEN /\ categories' = [categories EXCEPT ![q.doc.category].threadCount =
                                                Max(0, q.categoryDoc.threadCount - 1)]
          /\ requests' = [requests EXCEPT ![r] = Goto(q, "removeThread")]
     ELSE /\ categories' = categories
          /\ requests' = [requests EXCEPT ![r] = Respond(q, "ServerError")]
  /\ UNCHANGED <<threads, nextThreadId, forumRest>>

\* await Thread.findByIdAndDelete(req.params.threadId)
DeleteRemoveThread(r) ==
  LET q == requests[r] IN
  /\ AtStep(r, "deleteThread", "removeThread")
  /\ threads' = Drop(threads, q.threadId)
  /\ requests' = [requests EXCEPT ![r] = Respond(q, "OK")]
  /\ UNCHANGED <<categories, nextThreadId, forumRest>>

\* DELETE /:categoryId (categories router): Category.findById and the
\* threadCount check
CategoryFind(r) ==
  LET q == requests[r]
      found == findById(categories, q.category) IN
  /\ AtStep(r, "deleteCategory", "findCategory")
  /\ requests' = [requests EXCEPT ![r] =
       IF found = NoDocument THEN Respond(q, "NotFound")
       ELSE IF found.threadCount > 0 THEN Respond(q, "BadRequest")
       ELSE Goto([q EXCEPT !.categoryDoc = found], "removeCategory")]
  /\ UNCHANGED <<threads, categories, nextThreadId, forumRest>>

\* await Category.findByIdAndDelete(req.params.categoryId)
CategoryRemove(r) ==
  LET q == requests[r] IN
  /\ AtStep(r, "deleteCategory", "removeCategory")
  /\ categories' = Drop(categories, q.category)
  /\ requests' = [requests EXCEPT ![r] = Respond(q, "OK")]
  /\ UNCHANGED <<threads, nextThreadId, forumRest>>

\* the ids a request may name, and the users requireRole(['admin']) lets pass
RaceThreadIds == 1..MaxRaceThreads
Admins == {u \in Users : Role(u) = "admin"}

\* Forum-race specification: each of the requests creates, moves or deletes
\* a thread or deletes a category, and their calls interleave in every order
NextForumRace ==
  \/ \E r \in Requests, user \in Users, category \in CategoryIds :
       StartForum(r, "createThread", user, 0, category)
  \/ \E r \in Requests, user \in Users, threadId \in RaceThreadIds, category \in CategoryIds :
       StartForum(r, "updateThread", user, threadId, category)
  \/ \E r \in Requests, user \in Users, threadId \in RaceThreadIds :
       StartForum(r, "deleteThread", user, threadId, 0)
  \/ \E r \in Requests, user \in Admins, category \in CategoryIds :
       StartForum(r, "deleteCategory", user, 0, category)
  \/ \E r \in Requests : CreateFindCategory(r)
  \/ \E r \in Requests : CreateSaveThread(r)
  \/ \E r \in Requests : CreateSaveCategory(r)
  \/ \E r \in Requests : UpdateFindThread(r)
  \/ \E r \in Requests : UpdateFindOldCategory(r)
  \/ \E r \in Requests : UpdateFindNewCategory(r)
  \/ \E r \in Requests : UpdateSaveOldCategory(r)
  \/ \E r \in Requests : UpdateSaveNewCategory(r)
  \/ \E r \in Requests : UpdateSaveThread(r)
  \/ \E r \in Requests : DeleteFindThread(r)
  \/ \E r \in Requests : DeleteFindCategory(r)
  \/ \E r \in Requests : DeleteSaveCategory(r)
  \/ \E r \in Requests : DeleteRemoveThread(r)
  \/ \E r \in Requests : CategoryFind(r)
  \/ \E r \in Requests : CategoryRemove(r)

SpecForumRace == InitVoteRace /\ [][NextForumRace]_vars

\* C28: once interleaved createThread, editThread and deleteThread requests
\* on a category have all completed, the category's threadCount equals the
\* number of its threads; two concurrent deleteThread requests for one
\* thread lower it by one in total.
C28_CountsAfterRace ==
  (\A r \in Requests : ~InFlight(r)) =>
    \A c \in DOMAIN categories :
      categories[c].threadCount = Cardinality(InCategory(threads, c))

\* C30: in every state reached by interleaved createThread, editThread and
\* deleteCategory requests every stored thread references a stored category.
C30_CategoryExists ==
  \A id \in DOMAIN threads : threads[id].category \in DOMAIN categories

====
